---- MODULE Spec2Model ----
(***************************************************************************)
(* Tiered associative memory of v10z/reasoning-experiments:                *)
(* HebbianNetwork, ShortTermMemory, FleetingMemory, LongTermMemory and     *)
(* MemoryManager, as state machines.                                       *)
(*                                                                         *)
(* Numbers.  Edge weights are fixed-point integers in units of 1/Scale     *)
(* (0.001), importances in units of 1/ImpScale (0.01), the clock `now` in  *)
(* whole days.  A product with (1 - decayRate) is truncated to the unit.   *)
(* Ids.  An id is an integer standing for a string key: 0 stands for the   *)
(* integer-like key "0", every id >= 1 for a non-numeric string (a UUID,   *)
(* "a", "other").                                                          *)
(* A JS Map is a sequence of [k, v] records in insertion order.            *)
(***************************************************************************)
EXTENDS Integers, Sequences, FiniteSets, TLC

VARIABLES
    now,            \* Date.now(), in days
    nextId,         \* number of ids generateId() has handed out
    associations,   \* HebbianNetwork.associations : Map<id, Map<id, weight>>
    stEntries,      \* ShortTermMemory.entries : MemoryEntry[]
    flStore,        \* FleetingMemory.store : Map<id, MemoryEntry>
    ltEntries,      \* LongTermMemory.entries : Map<id, MemoryEntry>
    ltDirty,        \* LongTermMemory.dirty
    disk,           \* the file at config.storagePath
    consolidating,  \* the steps the consolidate() in progress has finished
    coActivatedPairs, \* history: the pairs of ids some coActivate call covered
    ops,            \* number of operations performed so far
    ret,            \* the last operation: its name, arguments and result
    steps,          \* ReasoningDAG.trace.steps : ReasoningStep[] (stepMap is its index by id)
    totalSteps,     \* ReasoningDAG.trace.totalSteps
    dagHeap,        \* the ReasoningDAG objects a ReasoningEngine has created: their steps
    dag,            \* ReasoningEngine.dag : index into dagHeap, 0 for null
    calls,          \* the reason() calls on the engine: position, input, returned trace
    stepOwner,      \* history: stepOwner[id] is the reason() call that added step id
    handlers,       \* the tool calls the MCP server has accepted: position, arguments, locals
    recallLog,      \* history: the ids each finished `recall` tool call returned
    overlapped      \* history: some tool call was accepted while another was in flight

\* the state of the memory stores and of their file
memVars == <<now, associations, stEntries, flStore, ltEntries, ltDirty,
             disk, consolidating, coActivatedPairs>>

\* the state of a ReasoningDAG
traceVars == <<steps, totalSteps>>

\* the state of a ReasoningEngine and of the reason() calls on it
engineVars == <<dagHeap, dag, calls, stepOwner>>

\* the tool calls of the MCP server
serverVars == <<handlers, recallLog, overlapped>>

vars == <<now, nextId, associations, stEntries, flStore, ltEntries, ltDirty,
          disk, consolidating, coActivatedPairs, ops, ret, steps, totalSteps,
          dagHeap, dag, calls, stepOwner, handlers, recallLog, overlapped>>

(***************************************************************************)
(* Bounds of the model and constants of the program                        *)
(***************************************************************************)
MaxOps == 3          \* operations per behaviour of a network used on its own

Scale == 1000        \* weight unit: 1/Scale
DecayRate == 50      \* decayRate = 0.05
MaxStrength == 1000  \* maxStrength = 1.0
Epsilon == 10        \* 0.01, the removal threshold of decay()
DefaultAmount == 100 \* strengthen's default amount 0.1

NodeIds == {0, 1, 2}
Amounts == {5, 800, 0 - 500}

Min(a, b) == IF a <= b THEN a ELSE b
Max(a, b) == IF a >= b THEN a ELSE b

(***************************************************************************)
(* JS Map<K, V>: insertion-ordered, unique keys                            *)
(***************************************************************************)
MapHas(m, k) == \E i \in 1..Len(m) : m[i].k = k
MapIdx(m, k) == CHOOSE i \in 1..Len(m) : m[i].k = k
MapGet(m, k) == m[MapIdx(m, k)].v
MapSet(m, k, v) ==
    IF MapHas(m, k) THEN [m EXCEPT ![MapIdx(m, k)].v = v]
    ELSE Append(m, [k |-> k, v |-> v])
MapDelete(m, k) == SelectSeq(m, LAMBDA e : e.k # k)
MapKeys(m) == {m[i].k : i \in 1..Len(m)}

(***************************************************************************)
(* HebbianNetwork                                                          *)
(***************************************************************************)
ensureNode(net, id) == IF MapHas(net, id) THEN net ELSE Append(net, [k |-> id, v |-> <<>>])

\* associations.get(a)?.get(b) || 0
getStrength(net, idA, idB) ==
    IF MapHas(net, idA) /\ MapHas(MapGet(net, idA), idB)
    THEN MapGet(MapGet(net, idA), idB)
    ELSE 0

strengthenOneWay(net, idA, idB, amount) ==
    LET n1 == ensureNode(ensureNode(net, idA), idB)
        currentAB == getStrength(n1, idA, idB)
    IN  MapSet(n1, idA, MapSet(MapGet(n1, idA), idB, Min(MaxStrength, currentAB + amount)))

strengthenNoClamp(net, idA, idB, amount) ==
    LET n1 == ensureNode(ensureNode(net, idA), idB)
        currentAB == getStrength(n1, idA, idB)
        currentBA == getStrength(n1, idB, idA)
        n2 == MapSet(n1, idA, MapSet(MapGet(n1, idA), idB, currentAB + amount))
    IN  MapSet(n2, idB, MapSet(MapGet(n2, idB), idA, currentBA + amount))

strengthen(net, idA, idB, amount) ==
    LET n1 == ensureNode(ensureNode(net, idA), idB)
        currentAB == getStrength(n1, idA, idB)
        currentBA == getStrength(n1, idB, idA)
        n2 == MapSet(n1, idA, MapSet(MapGet(n1, idA), idB, Min(MaxStrength, currentAB + amount)))
    IN  MapSet(n2, idB, MapSet(MapGet(n2, idB), idA, Min(MaxStrength, currentBA + amount)))

\* strength * (1 - decayRate), truncated to the weight unit
decayed(strength) == (strength * (Scale - DecayRate)) \div Scale

decayLinksKeepWeak(links) ==
    [i \in 1..Len(links) |-> [k |-> links[i].k, v |-> decayed(links[i].v)]]

decayLinks(links) ==
    LET scaled == [i \in 1..Len(links) |-> [k |-> links[i].k, v |-> decayed(links[i].v)]]
    IN  SelectSeq(scaled, LAMBDA e : ~(e.v < Epsilon))

decay(net) == [i \in 1..Len(net) |-> [k |-> net[i].k, v |-> decayLinks(net[i].v)]]

\* for i < j in index order: strengthen(ids[i], ids[j])
RECURSIVE coActivateFrom(_, _, _, _)
coActivateFrom(net, ids, i, j) ==
    IF i > Len(ids) THEN net
    ELSE IF j > Len(ids) THEN coActivateFrom(net, ids, i + 1, i + 2)
    ELSE coActivateFrom(strengthen(net, ids[i], ids[j], DefaultAmount), ids, i, j + 1)

coActivate(net, ids) == coActivateFrom(net, ids, 1, 2)

removeNodeOwnLinksOnly(net, id) == MapDelete(net, id)

removeNode(net, id) ==
    LET n1 == MapDelete(net, id)
    IN  [i \in 1..Len(n1) |-> [k |-> n1[i].k, v |-> MapDelete(n1[i].v, id)]]

(***************************************************************************)
(* Plain JS objects: own string keys enumerate with the integer-like keys  *)
(* first, in ascending numeric order, then the others in insertion order.  *)
(***************************************************************************)
IsIndexKey(k) == k = 0

RECURSIVE AscendingKeys(_)
AscendingKeys(S) ==
    IF S = {} THEN <<>>
    ELSE LET lo == CHOOSE x \in S : \A y \in S : x <= y
         IN  <<lo>> \o AscendingKeys(S \ {lo})

\* the property list of the object built by assigning the pairs in order
ObjectFromEntries(pairs) ==
    LET idx == AscendingKeys({k \in MapKeys(pairs) : IsIndexKey(k)})
    IN  [i \in 1..Len(idx) |-> [k |-> idx[i], v |-> MapGet(pairs, idx[i])]]
        \o SelectSeq(pairs, LAMBDA e : ~IsIndexKey(e.k))

toJSON(net) ==
    ObjectFromEntries([i \in 1..Len(net) |-> [k |-> net[i].k, v |-> ObjectFromEntries(net[i].v)]])

fromJSONNoLinks(data) == [i \in 1..Len(data) |-> [k |-> data[i].k, v |-> <<>>]]

\* Object.entries(data), each value rebuilt as new Map(Object.entries(links))
fromJSON(data) == [i \in 1..Len(data) |-> [k |-> data[i].k, v |-> data[i].v]]

(***************************************************************************)
(* Entry model.  content is the list of its word tokens; the always-empty  *)
(* `associations` field of MemoryEntry is left out.                        *)
(***************************************************************************)
ImpScale == 100      \* importance unit: 1/ImpScale

createMemoryEntry(id, content, importance, tags, source) ==
    [id |-> id, content |-> content,
     importance |-> Max(0, Min(ImpScale, importance)),
     accessCount |-> 0, createdAt |-> now, lastAccessed |-> now,
     tags |-> tags, source |-> source]

\* A non-negative rational as <<numerator, denominator>>, denominator > 0
KeyLess(p, q) == p[1] * q[2] < q[1] * p[2]

\* calculateRelevance(entry, t) = importance * sqrt(accessCount / (1 + days));
\* importance >= 0, so relevances compare as their squares do
relevanceSq(entry, t) ==
    <<entry.importance * entry.importance * entry.accessCount, 1 + (t - entry.lastAccessed)>>

RECURSIVE sortDescByKeyTiesFirst(_)
sortDescByKeyTiesFirst(s) ==
    IF Len(s) <= 1 THEN s
    ELSE LET rest == sortDescByKeyTiesFirst(SubSeq(s, 1, Len(s) - 1))
             x == s[Len(s)]
             p == Cardinality({i \in 1..Len(rest) : KeyLess(x.key, rest[i].key)})
         IN  SubSeq(rest, 1, p) \o <<x>> \o SubSeq(rest, p + 1, Len(rest))

\* Array.prototype.sort((a, b) => b.key - a.key): stable, descending by key
RECURSIVE sortDescByKey(_)
sortDescByKey(s) ==
    IF Len(s) <= 1 THEN s
    ELSE LET rest == sortDescByKey(SubSeq(s, 1, Len(s) - 1))
             x == s[Len(s)]
             p == Cardinality({i \in 1..Len(rest) : ~KeyLess(rest[i].key, x.key)})
         IN  SubSeq(rest, 1, p) \o <<x>> \o SubSeq(rest, p + 1, Len(rest))

sortByRelevance(entries, t) ==
    LET keyed == [i \in 1..Len(entries) |-> [entry |-> entries[i], key |-> relevanceSq(entries[i], t)]]
        sorted == sortDescByKey(keyed)
    IN  [i \in 1..Len(sorted) |-> sorted[i].entry]

\* tokenize: the set of word tokens of a text
tokenize(text) == {text[i] : i \in 1..Len(text)}

jaccardSimilarity(a, b) ==
    LET setA == tokenize(a)
        setB == tokenize(b)
        intersection == Cardinality(setA \cap setB)
        union == Cardinality(setA) + Cardinality(setB) - intersection
    IN  IF setA = {} /\ setB = {} THEN <<1, 1>>
        ELSE IF setA = {} \/ setB = {} THEN <<0, 1>>
        ELSE <<intersection, union>>

\* the indices of `entries` that match, best first, at most `limit` of them
searchIndices(entries, query, limit) ==
    LET scored == [i \in 1..Len(entries) |->
                      [entry |-> i, key |-> jaccardSimilarity(query, entries[i].content)]]
        hits == sortDescByKey(SelectSeq(scored, LAMBDA sc : sc.key[1] > 0))
        top == SubSeq(hits, 1, Min(limit, Len(hits)))
    IN  [i \in 1..Len(top) |-> top[i].entry]

(***************************************************************************)
(* ShortTermMemory                                                         *)
(***************************************************************************)
StMaxSize == 2                \* config.maxSize
CompressionThreshold == 80    \* config.compressionThreshold = 0.8, in 1/ImpScale
PromoteAccessCount == 3       \* compress promotes at accessCount >= 3
PromoteImportance == 70       \* ... or at importance >= 0.7

evictKeepAll(entries, t) == sortByRelevance(entries, t)

evictKeepLast(entries, t) ==
    LET sorted == sortByRelevance(entries, t)
    IN  SubSeq(sorted, Len(sorted) - Min(StMaxSize, Len(sorted)) + 1, Len(sorted))

evict(entries, t) ==
    LET sorted == sortByRelevance(entries, t)
    IN  SubSeq(sorted, 1, Min(StMaxSize, Len(sorted)))

stAdd(entries, entry) ==
    LET pushed == Append(entries, entry)
    IN  IF Len(pushed) > StMaxSize THEN evict(pushed, now) ELSE pushed

promotable(e) == e.accessCount >= PromoteAccessCount \/ e.importance >= PromoteImportance

compressInStoreOrder(entries) ==
    IF Len(entries) * ImpScale < CompressionThreshold * StMaxSize THEN <<entries, <<>>>>
    ELSE <<SelectSeq(entries, LAMBDA e : ~promotable(e)), SelectSeq(entries, promotable)>>

\* compress(): <<entries left in the store, entries returned>>
compress(entries) ==
    IF Len(entries) * ImpScale < CompressionThreshold * StMaxSize THEN <<entries, <<>>>>
    ELSE LET promotionCandidates == SelectSeq(sortByRelevance(entries, now), promotable)
             promotedIds == {promotionCandidates[i].id : i \in 1..Len(promotionCandidates)}
         IN  <<SelectSeq(entries, LAMBDA e : e.id \notin promotedIds), promotionCandidates>>

(***************************************************************************)
(* Initial state: every store freshly constructed                          *)
(***************************************************************************)
Init ==
    /\ now = 0
    /\ nextId = 0
    /\ associations = <<>>
    /\ stEntries = <<>>
    /\ flStore = <<>>
    /\ ltEntries = <<>>
    /\ ltDirty = FALSE
    /\ disk = [kind |-> "missing"]
    /\ consolidating = <<>>
    /\ coActivatedPairs = {}
    /\ ops = 0
    /\ ret = [op |-> "new"]
    /\ steps = <<>>
    /\ totalSteps = 0
    /\ dagHeap = <<>>
    /\ dag = 0
    /\ calls = <<>>
    /\ stepOwner = <<>>
    /\ handlers = <<>>
    /\ recallLog = <<>>
    /\ overlapped = FALSE

Step == ops < MaxOps /\ ops' = ops + 1 /\ UNCHANGED <<traceVars, engineVars, serverVars>>

\* the pairs coActivate(ids) strengthens
pairsOf(ids) == {{ids[i], ids[j]} : i \in 1..Len(ids), j \in 1..Len(ids)} \ {{ids[i]} : i \in 1..Len(ids)}

\* the lists of pairwise different elements of S
IdLists(S) ==
    {ids \in UNION {[1..m -> S] : m \in 0..Cardinality(S)} :
        \A i \in 1..Len(ids), j \in 1..Len(ids) : i # j => ids[i] # ids[j]}

(***************************************************************************)
(* A HebbianNetwork used on its own                                        *)
(***************************************************************************)
Strengthen(idA, idB, amount) ==
    /\ Step
    /\ associations' = strengthen(associations, idA, idB, amount)
    /\ ret' = [op |-> "strengthen", idA |-> idA, idB |-> idB, amount |-> amount]
    /\ UNCHANGED <<now, nextId, stEntries, flStore, ltEntries, ltDirty, disk, consolidating, coActivatedPairs>>

CoActivate(ids) ==
    /\ Step
    /\ associations' = coActivate(associations, ids)
    /\ coActivatedPairs' = coActivatedPairs \cup pairsOf(ids)
    /\ ret' = [op |-> "coActivate", ids |-> ids]
    /\ UNCHANGED <<now, nextId, stEntries, flStore, ltEntries, ltDirty, disk, consolidating>>

Decay ==
    /\ Step
    /\ associations' = decay(associations)
    /\ ret' = [op |-> "decay"]
    /\ UNCHANGED <<now, nextId, stEntries, flStore, ltEntries, ltDirty, disk, consolidating, coActivatedPairs>>

RemoveNode(id) ==
    /\ Step
    /\ associations' = removeNode(associations, id)
    /\ ret' = [op |-> "removeNode", id |-> id]
    /\ UNCHANGED <<now, nextId, stEntries, flStore, ltEntries, ltDirty, disk, consolidating, coActivatedPairs>>

\* HebbianNetwork.fromJSON(g.toJSON()); the restored network is the result
RoundTrip ==
    /\ Step
    /\ ret' = [op |-> "roundTrip", restored |-> fromJSON(toJSON(associations))]
    /\ UNCHANGED <<now, nextId, associations, stEntries, flStore, ltEntries, ltDirty, disk, consolidating, coActivatedPairs>>

NextHebbian ==
    \/ \E idA \in NodeIds, idB \in NodeIds, amount \in Amounts : Strengthen(idA, idB, amount)
    \/ \E ids \in IdLists(NodeIds) : CoActivate(ids)
    \/ Decay
    \/ \E id \in NodeIds : RemoveNode(id)
    \/ RoundTrip

SpecHebbian == Init /\ [][NextHebbian]_vars

(***************************************************************************)
(* A ShortTermMemory used on its own                                       *)
(***************************************************************************)
MaxStOps == 6        \* operations per behaviour of a short-term store used on its own

\* the ids handed out so far and one that was never handed out
EntryIds == 1..(nextId + 1)
Contents == {<<"x">>, <<"x", "y">>}
Queries == {<<"x">>, <<"y">>}
TagLists == {<<>>, <<"t">>}
Limits == {1, 10}
StImportances == {0, 50, 90}
NoTags == {<<>>}

IdsOf(entries) == {entries[i].id : i \in 1..Len(entries)}
HasId(entries, id) == \E i \in 1..Len(entries) : entries[i].id = id
IdxOf(entries, id) == CHOOSE i \in 1..Len(entries) : entries[i].id = id

\* entry.accessCount++; entry.lastAccessed = Date.now()
touch(e) == [e EXCEPT !.accessCount = @ + 1, !.lastAccessed = now]

StStep == ops < MaxStOps /\ ops' = ops + 1 /\ UNCHANGED <<traceVars, engineVars, serverVars>>

\* a day passes between two calls
StTick ==
    /\ StStep
    /\ now' = now + 1
    /\ ret' = [op |-> "tick"]
    /\ UNCHANGED <<nextId, associations, stEntries, flStore, ltEntries, ltDirty, disk, consolidating, coActivatedPairs>>

StAdd(content, importance, tags) ==
    /\ StStep
    /\ nextId' = nextId + 1
    /\ LET entry == createMemoryEntry(nextId + 1, content, importance, tags, "short_term")
       IN  /\ stEntries' = stAdd(stEntries, entry)
           /\ ret' = [op |-> "st.add", entry |-> entry]
    /\ UNCHANGED <<now, associations, flStore, ltEntries, ltDirty, disk, consolidating, coActivatedPairs>>

StGet(id) ==
    /\ StStep
    /\ stEntries' = [i \in 1..Len(stEntries) |->
                        IF stEntries[i].id = id THEN touch(stEntries[i]) ELSE stEntries[i]]
    /\ ret' = [op |-> "st.get", id |-> id, found |-> HasId(stEntries, id)]
    /\ UNCHANGED <<now, nextId, associations, flStore, ltEntries, ltDirty, disk, consolidating, coActivatedPairs>>

StSearch(query, limit) ==
    /\ StStep
    /\ LET found == searchIndices(stEntries, query, limit)
       IN  ret' = [op |-> "st.search", query |-> query, limit |-> limit,
                   ids |-> [i \in 1..Len(found) |-> stEntries[found[i]].id]]
    /\ UNCHANGED <<now, nextId, associations, stEntries, flStore, ltEntries, ltDirty, disk, consolidating, coActivatedPairs>>

StCompress ==
    /\ StStep
    /\ stEntries' = compress(stEntries)[1]
    /\ ret' = [op |-> "st.compress", promoted |-> compress(stEntries)[2]]
    /\ UNCHANGED <<now, nextId, associations, flStore, ltEntries, ltDirty, disk, consolidating, coActivatedPairs>>

StRemove(id) ==
    /\ StStep
    /\ stEntries' = SelectSeq(stEntries, LAMBDA e : e.id # id)
    /\ ret' = [op |-> "st.remove", id |-> id, found |-> HasId(stEntries, id)]
    /\ UNCHANGED <<now, nextId, associations, flStore, ltEntries, ltDirty, disk, consolidating, coActivatedPairs>>

StClear ==
    /\ StStep
    /\ stEntries' = <<>>
    /\ ret' = [op |-> "st.clear"]
    /\ UNCHANGED <<now, nextId, associations, flStore, ltEntries, ltDirty, disk, consolidating, coActivatedPairs>>

NextShortTerm ==
    \/ \E content \in Contents, importance \in StImportances, tags \in NoTags :
           StAdd(content, importance, tags)
    \/ \E id \in EntryIds : StGet(id)
    \/ \E query \in Queries, limit \in Limits : StSearch(query, limit)
    \/ StCompress
    \/ \E id \in EntryIds : StRemove(id)
    \/ StClear
    \/ StTick

SpecShortTerm == Init /\ [][NextShortTerm]_vars

(***************************************************************************)
(* LongTermMemory: `ltEntries` is its Map of entries in insertion order,   *)
(* `associations` the network it owns (getNetwork())                       *)
(***************************************************************************)
PruneThreshold == 1          \* config.pruneThreshold = 0.01, in 1/ImpScale
AssociationFanout == 3       \* neighbours pulled per direct hit
MaxLtOps == 5                \* long-term operations per behaviour

\* Map.set(entry.id, entry)
putEntry(entries, entry) ==
    IF HasId(entries, entry.id)
    THEN [entries EXCEPT ![IdxOf(entries, entry.id)] = entry]
    ELSE Append(entries, entry)

promoteKeepTier(entry) == entry

promote(entry) == [entry EXCEPT !.source = "long_term"]

getStrongestAssociations(net, id, limit) ==
    IF ~MapHas(net, id) THEN <<>>
    ELSE LET links == MapGet(net, id)
             keyed == [i \in 1..Len(links) |-> [id |-> links[i].k, key |-> <<links[i].v, 1>>]]
             sorted == sortDescByKey(keyed)
         IN  [i \in 1..Min(limit, Len(sorted)) |-> sorted[i].id]

\* the ids the inner loops of searchWithAssociations visit, in order
RECURSIVE neighbourCandidates(_, _)
neighbourCandidates(net, directIds) ==
    IF directIds = <<>> THEN <<>>
    ELSE getStrongestAssociations(net, Head(directIds), AssociationFanout)
            \o neighbourCandidates(net, Tail(directIds))

RECURSIVE collectAssociated(_, _, _, _)
collectAssociated(entries, candidates, resultIds, associated) ==
    IF candidates = <<>> THEN associated
    ELSE LET id == Head(candidates)
         IN  IF id \notin resultIds /\ HasId(entries, id)
             THEN collectAssociated(entries, Tail(candidates), resultIds \cup {id},
                                    Append(associated, id))
             ELSE collectAssociated(entries, Tail(candidates), resultIds, associated)

\* the ids returned by search(query, limit): every one of them is touched
ltSearchIds(entries, query, limit) ==
    LET found == searchIndices(entries, query, limit)
    IN  [i \in 1..Len(found) |-> entries[found[i]].id]

touchAll(entries, ids) ==
    [i \in 1..Len(entries) |->
        IF \E j \in 1..Len(ids) : ids[j] = entries[i].id THEN touch(entries[i]) ELSE entries[i]]

searchAssociatedFirst(entries, net, query, limit) ==
    LET directResults == ltSearchIds(entries, query, limit)
        resultIds == {directResults[i] : i \in 1..Len(directResults)}
        associated == collectAssociated(entries, neighbourCandidates(net, directResults),
                                        resultIds, <<>>)
        all == associated \o directResults
    IN  SubSeq(all, 1, Min(limit, Len(all)))

searchDirectOnly(entries, net, query, limit) == ltSearchIds(entries, query, limit)

searchWithAssociations(entries, net, query, limit) ==
    LET directResults == ltSearchIds(entries, query, limit)
        resultIds == {directResults[i] : i \in 1..Len(directResults)}
        associated == collectAssociated(entries, neighbourCandidates(net, directResults),
                                        resultIds, <<>>)
        all == directResults \o associated
    IN  SubSeq(all, 1, Min(limit, Len(all)))

prunableAnyAccess(entry) ==
    KeyLess(relevanceSq(entry, now), <<PruneThreshold * PruneThreshold, 1>>)

\* relevance < pruneThreshold && accessCount > 0
prunable(entry) ==
    /\ KeyLess(relevanceSq(entry, now), <<PruneThreshold * PruneThreshold, 1>>)
    /\ entry.accessCount > 0

RECURSIVE removeNodes(_, _)
removeNodes(net, ids) ==
    IF ids = <<>> THEN net ELSE removeNodes(removeNode(net, Head(ids)), Tail(ids))

\* prune(): the entries kept, the network, the count returned
prune(entries, net) ==
    LET gone == SelectSeq(entries, prunable)
    IN  [entries |-> SelectSeq(entries, LAMBDA e : ~prunable(e)),
         network |-> removeNodes(net, [i \in 1..Len(gone) |-> gone[i].id]),
         pruned |-> Len(gone)]

\* remove(id)
ltRemove(entries, net, id) ==
    [entries |-> SelectSeq(entries, LAMBDA e : e.id # id),
     network |-> IF HasId(entries, id) THEN removeNode(net, id) ELSE net]

\* The file at storagePath is one of
\*   [kind |-> "missing"]   no file, or one readFile cannot read
\*   [kind |-> "garbage"]   text JSON.parse rejects
\*   [kind |-> "object"]    JSON without an `entries` array
\*   [kind |-> "doc", entries |-> ..., associations |-> ...]   a StorageFormat
StoragePathSet == TRUE       \* config.storagePath is a non-empty path

RECURSIVE setAll(_, _)
setAll(entries, stored) ==
    IF stored = <<>> THEN entries ELSE setAll(putEntry(entries, Head(stored)), Tail(stored))

loadClearFirst(entries, net, file) ==
    IF file.kind = "doc"
    THEN [entries |-> setAll(<<>>, file.entries), network |-> fromJSON(file.associations)]
    ELSE [entries |-> <<>>, network |-> net]

\* load(): the entries and the network after it returned; it never throws
load(entries, net, file) ==
    IF ~StoragePathSet THEN [entries |-> entries, network |-> net]
    ELSE CASE file.kind = "doc" ->
                [entries |-> setAll(<<>>, file.entries), network |-> fromJSON(file.associations)]
           [] file.kind = "object" ->
                \* entries.clear() ran, then iterating stored.entries threw
                [entries |-> <<>>, network |-> net]
           [] OTHER ->
                \* readFile or JSON.parse threw: caught, nothing touched
                [entries |-> entries, network |-> net]

storedDocumentFirstOnly(entries, net) ==
    [kind |-> "doc", entries |-> SubSeq(entries, 1, Min(1, Len(entries))),
     associations |-> toJSON(net)]

\* the document save() writes
storedDocument(entries, net) ==
    [kind |-> "doc", entries |-> entries, associations |-> toJSON(net)]

\* save() goes to the file system only with a path and a dirty store
saveWrites(entries, net, dirty) == StoragePathSet /\ dirty

WriteOutcomes == {"written", "failed", "torn"}

saveSwallowsFailure(entries, net, dirty, file, outcome) ==
    IF ~saveWrites(entries, net, dirty) THEN [disk |-> file, dirty |-> dirty, threw |-> FALSE]
    ELSE IF outcome = "written"
         THEN [disk |-> storedDocument(entries, net), dirty |-> FALSE, threw |-> FALSE]
         ELSE [disk |-> file, dirty |-> FALSE, threw |-> FALSE]

\* save(): the file, the dirty flag and whether it threw, when mkdir/writeFile
\* end with `outcome` ("torn": writeFile failed after truncating the file)
save(entries, net, dirty, file, outcome) ==
    IF ~saveWrites(entries, net, dirty) THEN [disk |-> file, dirty |-> dirty, threw |-> FALSE]
    ELSE CASE outcome = "written" ->
                [disk |-> storedDocument(entries, net), dirty |-> FALSE, threw |-> FALSE]
           [] outcome = "torn" ->
                [disk |-> [kind |-> "garbage"], dirty |-> dirty, threw |-> TRUE]
           [] OTHER ->
                [disk |-> file, dirty |-> dirty, threw |-> TRUE]

(***************************************************************************)
(* A LongTermMemory used on its own, its network reached by getNetwork()   *)
(***************************************************************************)
LtImportances == {1, 90}
PromotedImportances == {90}
LtAmounts == {800}
LtNodeIds == 0..nextId      \* 0: an id that is no entry's ("other")

LtStep == ops < MaxLtOps /\ ops' = ops + 1 /\ UNCHANGED <<traceVars, engineVars, serverVars>>

LtTick ==
    /\ LtStep
    /\ now' = now + 1
    /\ ret' = [op |-> "tick"]
    /\ UNCHANGED <<nextId, associations, stEntries, flStore, ltEntries, ltDirty, disk, consolidating, coActivatedPairs>>

LtAdd(content, importance, tags) ==
    /\ LtStep
    /\ nextId' = nextId + 1
    /\ LET entry == createMemoryEntry(nextId + 1, content, importance, tags, "long_term")
       IN  /\ ltEntries' = putEntry(ltEntries, entry)
           /\ ret' = [op |-> "lt.add", entry |-> entry]
    /\ ltDirty' = TRUE
    /\ UNCHANGED <<now, associations, stEntries, flStore, disk, consolidating, coActivatedPairs>>

\* promote(entry) of an entry made elsewhere as a short-term entry
LtPromote(content, importance, tags) ==
    /\ LtStep
    /\ nextId' = nextId + 1
    /\ LET promoted == promote(createMemoryEntry(nextId + 1, content, importance, tags, "short_term"))
       IN  /\ ltEntries' = putEntry(ltEntries, promoted)
           /\ ret' = [op |-> "lt.promote", entry |-> promoted]
    /\ ltDirty' = TRUE
    /\ UNCHANGED <<now, associations, stEntries, flStore, disk, consolidating, coActivatedPairs>>

LtGet(id) ==
    /\ LtStep
    /\ ltEntries' = touchAll(ltEntries, <<id>>)
    /\ ltDirty' = (ltDirty \/ HasId(ltEntries, id))
    /\ ret' = [op |-> "lt.get", id |-> id, found |-> HasId(ltEntries, id)]
    /\ UNCHANGED <<now, nextId, associations, stEntries, flStore, disk, consolidating, coActivatedPairs>>

LtSearch(query, limit) ==
    /\ LtStep
    /\ LET ids == ltSearchIds(ltEntries, query, limit)
       IN  /\ ltEntries' = touchAll(ltEntries, ids)
           /\ ltDirty' = (ltDirty \/ ids # <<>>)
           /\ ret' = [op |-> "lt.search", query |-> query, limit |-> limit, ids |-> ids]
    /\ UNCHANGED <<now, nextId, associations, stEntries, flStore, disk, consolidating, coActivatedPairs>>

LtSearchWithAssociations(query, limit) ==
    /\ LtStep
    /\ LET direct == ltSearchIds(ltEntries, query, limit)
       IN  /\ ltEntries' = touchAll(ltEntries, direct)
           /\ ltDirty' = (ltDirty \/ direct # <<>>)
           /\ ret' = [op |-> "lt.searchWithAssociations", query |-> query, limit |-> limit,
                      ids |-> searchWithAssociations(ltEntries, associations, query, limit)]
    /\ UNCHANGED <<now, nextId, associations, stEntries, flStore, disk, consolidating, coActivatedPairs>>

LtPrune ==
    /\ LtStep
    /\ LET r == prune(ltEntries, associations)
       IN  /\ ltEntries' = r.entries
           /\ associations' = r.network
           /\ ltDirty' = (ltDirty \/ r.pruned > 0)
           /\ ret' = [op |-> "lt.prune", pruned |-> r.pruned]
    /\ UNCHANGED <<now, nextId, stEntries, flStore, disk, consolidating, coActivatedPairs>>

LtRemove(id) ==
    /\ LtStep
    /\ LET r == ltRemove(ltEntries, associations, id)
       IN  /\ ltEntries' = r.entries
           /\ associations' = r.network
    /\ ltDirty' = (ltDirty \/ HasId(ltEntries, id))
    /\ ret' = [op |-> "lt.remove", id |-> id, result |-> HasId(ltEntries, id)]
    /\ UNCHANGED <<now, nextId, stEntries, flStore, disk, consolidating, coActivatedPairs>>

\* getNetwork().strengthen(idA, idB, amount)
LtNetStrengthen(idA, idB, amount) ==
    /\ LtStep
    /\ associations' = strengthen(associations, idA, idB, amount)
    /\ ret' = [op |-> "strengthen", idA |-> idA, idB |-> idB, amount |-> amount]
    /\ UNCHANGED <<now, nextId, stEntries, flStore, ltEntries, ltDirty, disk, consolidating, coActivatedPairs>>

\* getNetwork().coActivate(ids)
LtNetCoActivate(ids) ==
    /\ LtStep
    /\ associations' = coActivate(associations, ids)
    /\ coActivatedPairs' = coActivatedPairs \cup pairsOf(ids)
    /\ ret' = [op |-> "coActivate", ids |-> ids]
    /\ UNCHANGED <<now, nextId, stEntries, flStore, ltEntries, ltDirty, disk, consolidating>>

\* getNetwork().decay()
LtNetDecay ==
    /\ LtStep
    /\ associations' = decay(associations)
    /\ ret' = [op |-> "decay"]
    /\ UNCHANGED <<now, nextId, stEntries, flStore, ltEntries, ltDirty, disk, consolidating, coActivatedPairs>>

\* load()
LtLoad ==
    /\ LtStep
    /\ LET r == load(ltEntries, associations, disk)
       IN  /\ ltEntries' = r.entries
           /\ associations' = r.network
    /\ ret' = [op |-> "lt.load", threw |-> FALSE, file |-> disk.kind]
    /\ UNCHANGED <<now, nextId, stEntries, flStore, ltDirty, disk, consolidating, coActivatedPairs>>

\* save()
LtSave(outcome) ==
    /\ LtStep
    /\ LET r == save(ltEntries, associations, ltDirty, disk, outcome)
       IN  /\ disk' = r.disk
           /\ ltDirty' = r.dirty
           /\ ret' = [op |-> "lt.save", threw |-> r.threw, outcome |-> outcome]
    /\ UNCHANGED <<now, nextId, associations, stEntries, flStore, ltEntries, consolidating,
                   coActivatedPairs>>

FileKinds == {"missing", "garbage", "object"}

\* another process deletes the file or overwrites it
FsReplace(kind) ==
    /\ LtStep
    /\ disk.kind # kind
    /\ disk' = [kind |-> kind]
    /\ ret' = [op |-> "fs.replace", kind |-> kind]
    /\ UNCHANGED <<now, nextId, associations, stEntries, flStore, ltEntries, ltDirty,
                   consolidating, coActivatedPairs>>

NextLongTerm ==
    \/ \E content \in Contents, importance \in LtImportances, tags \in NoTags :
           LtAdd(content, importance, tags)
    \/ \E content \in Contents, importance \in PromotedImportances, tags \in NoTags :
           LtPromote(content, importance, tags)
    \/ \E id \in EntryIds : LtGet(id)
    \/ \E query \in Queries, limit \in Limits : LtSearch(query, limit)
    \/ \E query \in Queries, limit \in Limits : LtSearchWithAssociations(query, limit)
    \/ LtPrune
    \/ \E id \in EntryIds : LtRemove(id)
    \/ \E idA \in LtNodeIds, idB \in LtNodeIds, amount \in LtAmounts :
           idA <= idB /\ LtNetStrengthen(idA, idB, amount)
    \/ \E idA \in IdsOf(ltEntries) : \E idB \in IdsOf(ltEntries) \ {idA} :
           LtNetCoActivate(<<idA, idB>>)
    \/ LtNetDecay
    \/ LtTick

SpecLongTerm == Init /\ [][NextLongTerm]_vars

(***************************************************************************)
(* A LongTermMemory with a storage path: writes, reads, load and save      *)
(***************************************************************************)
NextPersist ==
    \/ \E content \in Contents, importance \in PromotedImportances, tags \in NoTags :
           LtAdd(content, importance, tags)
    \/ \E id \in IdsOf(ltEntries) : LtGet(id)
    \/ \E id \in IdsOf(ltEntries) : LtRemove(id)
    \/ \E idA \in IdsOf(ltEntries) : \E idB \in IdsOf(ltEntries) \ {idA} :
           LtNetCoActivate(<<idA, idB>>)
    \/ LtNetDecay
    \/ LtLoad
    \/ \E outcome \in WriteOutcomes : LtSave(outcome)
    \/ \E kind \in FileKinds : FsReplace(kind)

SpecPersist == Init /\ [][NextPersist]_vars

(***************************************************************************)
(* A LongTermMemory with a storage path, used through its entry            *)
(* operations and save() only                                              *)
(***************************************************************************)
NextStore ==
    \/ \E content \in Contents, importance \in LtImportances, tags \in NoTags :
           LtAdd(content, importance, tags)
    \/ \E content \in Contents, importance \in PromotedImportances, tags \in NoTags :
           LtPromote(content, importance, tags)
    \/ \E id \in IdsOf(ltEntries) : LtGet(id)
    \/ \E query \in Queries, limit \in Limits : LtSearch(query, limit)
    \/ \E id \in IdsOf(ltEntries) : LtRemove(id)
    \/ LtPrune
    \/ LtTick
    \/ \E outcome \in WriteOutcomes : LtSave(outcome)

SpecStore == Init /\ [][NextStore]_vars

(***************************************************************************)
(* FleetingMemory and MemoryManager                                        *)
(***************************************************************************)
LongTermThreshold == 70      \* remember: importance >= 0.7 goes to long-term
ShortTermThreshold == 40     \* remember: importance >= 0.4 goes to short-term

routeOfNoLongTerm(importance) ==
    IF importance >= ShortTermThreshold THEN "short_term" ELSE "fleeting"

routeOfStrict(importance) ==
    IF importance > LongTermThreshold THEN "long_term"
    ELSE IF importance > ShortTermThreshold THEN "short_term"
    ELSE "fleeting"

\* the store remember() hands the write to
routeOf(importance) ==
    IF importance >= LongTermThreshold THEN "long_term"
    ELSE IF importance >= ShortTermThreshold THEN "short_term"
    ELSE "fleeting"

MgrImportances == {0 - 10, 39, 40, 69, 70, 120}
MaxMgrOps == 3
MaxSessOps == 6      \* manager operations per behaviour of a whole session               \* manager operations per behaviour

\* a call starts only when no consolidate() is in progress: its caller awaits it
MgrStep == ops < MaxSessOps /\ ops' = ops + 1 /\ consolidating = <<>> /\ UNCHANGED <<traceVars, engineVars, serverVars>>

Remember(content, importance, tags) ==
    /\ MgrStep
    /\ nextId' = nextId + 1
    /\ LET entry == createMemoryEntry(nextId + 1, content, importance, tags, routeOf(importance))
       IN  /\ ret' = [op |-> "remember", content |-> content, importance |-> importance,
                      tags |-> tags, entry |-> entry]
           /\ CASE routeOf(importance) = "long_term" ->
                     /\ ltEntries' = putEntry(ltEntries, entry)
                     /\ ltDirty' = TRUE
                     /\ UNCHANGED <<stEntries, flStore>>
                [] routeOf(importance) = "short_term" ->
                     /\ stEntries' = stAdd(stEntries, entry)
                     /\ UNCHANGED <<ltEntries, ltDirty, flStore>>
                [] OTHER ->
                     /\ flStore' = putEntry(flStore, entry)
                     /\ UNCHANGED <<ltEntries, ltDirty, stEntries>>
    /\ UNCHANGED <<now, associations, disk, consolidating, coActivatedPairs>>

\* getShortTerm().get(id), getLongTerm().get(id), getFleeting().get(id)
MgrGet(tier, id) ==
    /\ MgrStep
    /\ ret' = [op |-> "mgr.get", tier |-> tier, id |-> id]
    /\ CASE tier = "long_term" ->
              /\ ltEntries' = touchAll(ltEntries, <<id>>)
              /\ ltDirty' = (ltDirty \/ HasId(ltEntries, id))
              /\ UNCHANGED <<stEntries, flStore>>
         [] tier = "short_term" ->
              /\ stEntries' = touchAll(stEntries, <<id>>)
              /\ UNCHANGED <<ltEntries, ltDirty, flStore>>
         [] OTHER ->
              /\ flStore' = touchAll(flStore, <<id>>)
              /\ UNCHANGED <<ltEntries, ltDirty, stEntries>>
    /\ UNCHANGED <<now, nextId, associations, disk, consolidating, coActivatedPairs>>

Tiers == {"fleeting", "short_term", "long_term"}

MgrTick ==
    /\ MgrStep
    /\ now' = now + 1
    /\ ret' = [op |-> "tick"]
    /\ UNCHANGED <<nextId, associations, stEntries, flStore, ltEntries, ltDirty, disk, consolidating, coActivatedPairs>>

NextManager ==
    /\ ops < MaxMgrOps
    /\ \/ \E content \in Contents, importance \in MgrImportances, tags \in TagLists :
              Remember(content, importance, tags)
       \/ \E tier \in Tiers, id \in EntryIds : MgrGet(tier, id)
       \/ MgrTick

SpecManager == Init /\ [][NextManager]_vars

(***************************************************************************)
(* MemoryManager.recall                                                    *)
(***************************************************************************)
\* text.includes(q) for texts made of one-letter words joined by blanks
includes(text, q) ==
    \E i \in 0..(Len(text) - Len(q)) : SubSeq(text, i + 1, i + Len(q)) = q

\* FleetingMemory.search(query): the matching entries, in insertion order
flSearch(store, query) ==
    SelectSeq(store, LAMBDA e :
        \/ includes(e.content, query)
        \/ \E t \in 1..Len(e.tags) : includes(<<e.tags[t]>>, query))

entriesOf(entries, ids) == [i \in 1..Len(ids) |-> entries[IdxOf(entries, ids[i])]]

LongTermBoost == 2       \* addResults(longTermResults, 0.2), in tenths
ShortTermBoost == 1      \* addResults(shortTermResults, 0.1)
FleetingBoost == 0       \* addResults(fleetingResults, 0)

\* similarity + tierBoost, as a fraction
scoreOf(entry, query, tierBoost) ==
    LET similarity == jaccardSimilarity(query, entry.content)
    IN  <<10 * similarity[1] + tierBoost * similarity[2], 10 * similarity[2]>>

RECURSIVE addResults(_, _, _, _)
addResults(merged, entries, query, tierBoost) ==
    IF entries = <<>> THEN merged
    ELSE LET entry == Head(entries)
         IN  IF \E i \in 1..Len(merged) : merged[i].id = entry.id
             THEN addResults(merged, Tail(entries), query, tierBoost)
             ELSE addResults(Append(merged, [id |-> entry.id,
                                             key |-> scoreOf(entry, query, tierBoost)]),
                             Tail(entries), query, tierBoost)

recallUnranked(lt, net, st, fl, query, limit) ==
    LET longTermResults == entriesOf(lt, searchWithAssociations(lt, net, query, limit))
        shortTermResults == entriesOf(st, ltSearchIds(st, query, limit))
        fleetingResults == flSearch(fl, query)
        merged == addResults(addResults(addResults(<<>>, longTermResults, query, LongTermBoost),
                                        shortTermResults, query, ShortTermBoost),
                             fleetingResults, query, FleetingBoost)
    IN  [i \in 1..Min(limit, Len(merged)) |-> merged[i].id]

\* the ids of the entries recall(query, limit) returns, in order
recall(lt, net, st, fl, query, limit) ==
    LET longTermResults == entriesOf(lt, searchWithAssociations(lt, net, query, limit))
        shortTermResults == entriesOf(st, ltSearchIds(st, query, limit))
        fleetingResults == flSearch(fl, query)
        merged == addResults(addResults(addResults(<<>>, longTermResults, query, LongTermBoost),
                                        shortTermResults, query, ShortTermBoost),
                             fleetingResults, query, FleetingBoost)
        sorted == sortDescByKey(merged)
    IN  [i \in 1..Min(limit, Len(sorted)) |-> sorted[i].id]

coActivateTwice(net, recalledIds) == coActivate(net, recalledIds \o recalledIds)

\* if (recalledIds.length > 1) network.coActivate(recalledIds)
coActivateRecalled(net, recalledIds) ==
    IF Len(recalledIds) > 1 THEN coActivate(net, recalledIds) ELSE net

Recall(query, limit) ==
    /\ MgrStep
    /\ \E direct \in {ltSearchIds(ltEntries, query, limit)},
          recalledIds \in {recall(ltEntries, associations, stEntries, flStore, query, limit)} :
           /\ ltEntries' = touchAll(ltEntries, direct)
           /\ ltDirty' = (ltDirty \/ direct # <<>>)
           /\ associations' = coActivateRecalled(associations, recalledIds)
           /\ coActivatedPairs' = coActivatedPairs \cup
                                     (IF Len(recalledIds) > 1 THEN pairsOf(recalledIds) ELSE {})
           /\ ret' = [op |-> "recall", query |-> query, limit |-> limit, ids |-> recalledIds]
    /\ UNCHANGED <<now, nextId, stEntries, flStore, disk, consolidating>>

(***************************************************************************)
(* MemoryManager.consolidate, one step of its body at a time               *)
(***************************************************************************)
consolidateStepsSaveEarly == <<"compress", "decay", "save", "prune", "clear">>

\* the statements of consolidate(), in program order
consolidateSteps == <<"compress", "decay", "prune", "clear", "save">>

RECURSIVE promoteAll(_, _)
promoteAll(entries, promoted) ==
    IF promoted = <<>> THEN entries
    ELSE promoteAll(putEntry(entries, promote(Head(promoted))), Tail(promoted))

\* the value consolidate() returns: promoted.length
promotedCount(done) ==
    LET i == CHOOSE i \in 1..Len(done) : done[i].step = "compress" IN done[i].result

\* the next statement of the consolidate() in progress (or of a new one);
\* `outcome` is how the file system answers the write of save()
Consolidate(outcome) ==
    /\ IF consolidating = <<>> THEN ops < MaxSessOps /\ ops' = ops + 1 ELSE ops' = ops
    /\ UNCHANGED <<traceVars, engineVars, serverVars>>
    /\ LET step == consolidateSteps[Len(consolidating) + 1]
           last == Len(consolidating) + 1 = Len(consolidateSteps)
           finish(result, threw) ==
               LET done == Append(consolidating, [step |-> step, result |-> result])
               IN  /\ consolidating' = IF last \/ threw THEN <<>> ELSE done
                   /\ ret' = IF threw THEN [op |-> "consolidate", step |-> step, threw |-> TRUE,
                                             outcome |-> outcome]
                             ELSE IF last THEN [op |-> "consolidate", step |-> step, threw |-> FALSE,
                                                outcome |-> outcome,
                                                promoted |-> promotedCount(done)]
                             ELSE [op |-> "consolidate.step", step |-> step]
       IN  CASE step = "compress" ->
                  \E c \in {compress(stEntries)} :
                      /\ outcome = "written"
                      /\ stEntries' = c[1]
                      /\ ltEntries' = promoteAll(ltEntries, c[2])
                      /\ ltDirty' = (ltDirty \/ c[2] # <<>>)
                      /\ finish(Len(c[2]), FALSE)
                      /\ UNCHANGED <<associations, flStore, disk>>
             [] step = "decay" ->
                  /\ outcome = "written"
                  /\ associations' = decay(associations)
                  /\ finish(0, FALSE)
                  /\ UNCHANGED <<stEntries, ltEntries, ltDirty, flStore, disk>>
             [] step = "prune" ->
                  \E r \in {prune(ltEntries, associations)} :
                      /\ outcome = "written"
                      /\ ltEntries' = r.entries
                      /\ associations' = r.network
                      /\ ltDirty' = (ltDirty \/ r.pruned > 0)
                      /\ finish(r.pruned, FALSE)
                      /\ UNCHANGED <<stEntries, flStore, disk>>
             [] step = "clear" ->
                  /\ outcome = "written"
                  /\ flStore' = <<>>
                  /\ finish(0, FALSE)
                  /\ UNCHANGED <<stEntries, ltEntries, ltDirty, associations, disk>>
             [] step = "save" ->
                  LET r == save(ltEntries, associations, ltDirty, disk, outcome)
                  IN  /\ saveWrites(ltEntries, associations, ltDirty) \/ outcome = "written"
                      /\ disk' = r.disk
                      /\ ltDirty' = r.dirty
                      /\ finish(0, r.threw)
                      /\ UNCHANGED <<stEntries, ltEntries, associations, flStore>>
    /\ UNCHANGED <<now, nextId, coActivatedPairs>>

\* MemoryManager.save(): await this.longTerm.save()
MgrSave(outcome) ==
    /\ MgrStep
    /\ saveWrites(ltEntries, associations, ltDirty) \/ outcome = "written"
    /\ LET r == save(ltEntries, associations, ltDirty, disk, outcome)
       IN  /\ disk' = r.disk
           /\ ltDirty' = r.dirty
           /\ ret' = [op |-> "mgr.save", threw |-> r.threw, outcome |-> outcome]
    /\ UNCHANGED <<now, nextId, associations, stEntries, flStore, ltEntries, consolidating,
                   coActivatedPairs>>

IdleDays == 30000       \* a long time without a call

\* Date.now() moves on while the manager is idle
SessIdle ==
    /\ MgrStep
    /\ now' = now + IdleDays
    /\ ret' = [op |-> "idle"]
    /\ UNCHANGED <<nextId, associations, stEntries, flStore, ltEntries, ltDirty, disk,
                   consolidating, coActivatedPairs>>

SessImportances == {20, 50, 90}

heldBy(tier) ==
    IdsOf(CASE tier = "long_term" -> ltEntries [] tier = "short_term" -> stEntries
            [] OTHER -> flStore)

SessContents == {<<"x">>}
SessLimits == {2}

\* a session: writes, reads on the tiers, recall and consolidate
NextSession ==
    \/ \E content \in SessContents, importance \in SessImportances, tags \in NoTags :
           Remember(content, importance, tags)
    \/ \E tier \in Tiers : \E id \in heldBy(tier) : MgrGet(tier, id)
    \/ \E query \in SessContents, limit \in SessLimits : Recall(query, limit)
    \/ \E outcome \in WriteOutcomes : Consolidate(outcome)
    \/ \E outcome \in WriteOutcomes : MgrSave(outcome)
    \/ SessIdle

SpecSession == Init /\ [][NextSession]_vars

\* a session that uses nothing but remember, recall and consolidate
NextCore ==
    \/ \E content \in SessContents, importance \in SessImportances, tags \in NoTags :
           Remember(content, importance, tags)
    \/ \E query \in SessContents, limit \in SessLimits : Recall(query, limit)
    \/ \E outcome \in WriteOutcomes : Consolidate(outcome)

SpecCore == Init /\ [][NextCore]_vars

MaxRecallOps == 5       \* operations per behaviour of writes and recalls
RecallLimits == {2, 10}

\* writes and recalls over varied contents, queries and limits
NextRecall ==
    /\ ops < MaxRecallOps
    /\ \/ \E content \in Contents, importance \in SessImportances, tags \in NoTags :
              Remember(content, importance, tags)
       \/ \E query \in Queries, limit \in RecallLimits : Recall(query, limit)

SpecRecall == Init /\ [][NextRecall]_vars

(***************************************************************************)
(* ReasoningDAG.  A step is [id, parentId, childrenIds]; parentId 0 is     *)
(* null.  Ids come from generateId(), so two DAGs never share an id.       *)
(***************************************************************************)
MaxDagOps == 5          \* addStep and mergeFrom calls per behaviour
NullId == 0

createStep(id, parentId) == [id |-> id, parentId |-> parentId, childrenIds |-> <<>>]

\* stepMap.has(id)
hasStep(ss, id) == \E i \in 1..Len(ss) : ss[i].id = id

\* stepMap.get(id), as an index into steps
stepIdx(ss, id) == CHOOSE i \in 1..Len(ss) : ss[i].id = id

\* addStep(type, content, parentId) with a known or null parent, the new
\* step having `id`
addStep(ss, id, parentId) ==
    LET linked == IF parentId = NullId THEN ss
                  ELSE [ss EXCEPT ![stepIdx(ss, parentId)].childrenIds = Append(@, id)]
    IN  Append(linked, createStep(id, parentId))

\* getLeaves(): the ids of the steps without children, in insertion order
getLeaves(ss) ==
    LET leaves == SelectSeq(ss, LAMBDA st : st.childrenIds = <<>>)
    IN  [i \in 1..Len(leaves) |-> leaves[i].id]

\* the steps of otherTrace whose parentId is null or not a step of otherTrace
otherRootsOf(otherSteps) ==
    SelectSeq(otherSteps, LAMBDA st : st.parentId = NullId \/ ~hasStep(otherSteps, st.parentId))

\* mergeFrom(otherTrace): import a copy of every step, then push every root
\* onto every former leaf's childrenIds and point the imported copy of a
\* root whose parentId was null at the leaf (the last leaf's write stays)
mergeFrom(ss, otherSteps) ==
    LET leaves == getLeaves(ss)
        otherRoots == otherRootsOf(otherSteps)
        rootIds == [i \in 1..Len(otherRoots) |-> otherRoots[i].id]
        imported == ss \o otherSteps
        isLeaf(id) == \E i \in 1..Len(leaves) : leaves[i] = id
        nullRoot(id) == \E i \in 1..Len(otherRoots) :
                            otherRoots[i].id = id /\ otherRoots[i].parentId = NullId
    IN  [i \in 1..Len(imported) |->
            IF i <= Len(ss)
            THEN IF isLeaf(imported[i].id)
                 THEN [imported[i] EXCEPT !.childrenIds = @ \o rootIds]
                 ELSE imported[i]
            ELSE IF nullRoot(imported[i].id) /\ leaves # <<>>
                 THEN [imported[i] EXCEPT !.parentId = leaves[Len(leaves)]]
                 ELSE imported[i]]

\* the traces another ReasoningDAG hands out through getTrace(), their ids
\* following `base`: one root; a root and its child; two roots
OtherTraces(base) ==
    { <<createStep(base + 1, NullId)>>,
      addStep(<<createStep(base + 1, NullId)>>, base + 2, base + 1),
      <<createStep(base + 1, NullId), createStep(base + 2, NullId)>> }

DagStep == ops < MaxDagOps /\ ops' = ops + 1 /\ UNCHANGED <<memVars, engineVars, serverVars>>

\* dag.addStep(type, content, parentId): the id is generated first, then an
\* unknown parent throws before anything is written
DagAddStep(parentId) ==
    /\ DagStep
    /\ nextId' = nextId + 1
    /\ IF parentId # NullId /\ ~hasStep(steps, parentId)
       THEN /\ ret' = [op |-> "dag.addStep", parentId |-> parentId, threw |-> TRUE]
            /\ UNCHANGED traceVars
       ELSE /\ steps' = addStep(steps, nextId + 1, parentId)
            /\ totalSteps' = Len(steps')
            /\ ret' = [op |-> "dag.addStep", parentId |-> parentId, threw |-> FALSE,
                       id |-> nextId + 1]

\* dag.mergeFrom(otherTrace)
DagMergeFrom(otherSteps) ==
    /\ DagStep
    /\ nextId' = nextId + Len(otherSteps)
    /\ steps' = mergeFrom(steps, otherSteps)
    /\ totalSteps' = Len(steps')
    /\ ret' = [op |-> "dag.mergeFrom", otherSteps |-> otherSteps]

NextDag ==
    \/ \E parentId \in 0..(nextId + 1) : DagAddStep(parentId)
    \/ \E otherSteps \in OtherTraces(nextId) : DagMergeFrom(otherSteps)

SpecDag == Init /\ [][NextDag]_vars

(***************************************************************************)
(* ReasoningEngine.reason.  Every `await` of reason() is a point where     *)
(* another call on the same engine may run; a call is                      *)
(* [pc, maxIterations, i, trace], pc naming the statement it resumes at.   *)
(* The strategy modelled adds a root in initialize and one step under the  *)
(* first root in every iterate and in synthesize.                          *)
(***************************************************************************)
MaxCalls == 2               \* reason() calls per behaviour
IterationChoices == {1, 2}  \* input.maxIterations

\* what a strategy hook does through getDAG().addStep: the steps of the
\* engine's current DAG afterwards, the new step having `id`
hookSteps(ss, id) ==
    IF ss = <<>> THEN addStep(ss, id, NullId) ELSE addStep(ss, id, ss[1].id)

\* reason(input), up to its first await: this.dag = new ReasoningDAG(name),
\* then the body of initialize
EngReason(maxIterations) ==
    /\ Len(calls) < MaxCalls
    /\ dagHeap' = Append(dagHeap, hookSteps(<<>>, nextId + 1))
    /\ dag' = Len(dagHeap) + 1
    /\ nextId' = nextId + 1
    /\ stepOwner' = Append(stepOwner, Len(calls) + 1)
    /\ calls' = Append(calls, [pc |-> "iterate", maxIterations |-> maxIterations, i |-> 0,
                                trace |-> <<>>])
    /\ ops' = ops + 1
    /\ ret' = [op |-> "reason.initialize", call |-> Len(calls) + 1]
    /\ UNCHANGED <<memVars, traceVars, serverVars>>

\* the body of iterate(input, i), run against whatever this.dag is now
EngIterate(c) ==
    /\ calls[c].pc = "iterate"
    /\ dagHeap' = [dagHeap EXCEPT ![dag] = hookSteps(@, nextId + 1)]
    /\ nextId' = nextId + 1
    /\ stepOwner' = Append(stepOwner, c)
    /\ calls' = [calls EXCEPT ![c].i = @ + 1,
                              ![c].pc = IF calls[c].i + 1 < calls[c].maxIterations
                                        THEN "iterate" ELSE "synthesize"]
    /\ ops' = ops + 1
    /\ ret' = [op |-> "reason.iterate", call |-> c]
    /\ UNCHANGED <<memVars, traceVars, serverVars, dag>>

\* the body of synthesize(input)
EngSynthesize(c) ==
    /\ calls[c].pc = "synthesize"
    /\ dagHeap' = [dagHeap EXCEPT ![dag] = hookSteps(@, nextId + 1)]
    /\ nextId' = nextId + 1
    /\ stepOwner' = Append(stepOwner, c)
    /\ calls' = [calls EXCEPT ![c].pc = "return"]
    /\ ops' = ops + 1
    /\ ret' = [op |-> "reason.synthesize", call |-> c]
    /\ UNCHANGED <<memVars, traceVars, serverVars, dag>>

\* after the last await: this.dag.setFinalOutput(answer) and
\* return {trace: this.dag.getTrace(), answer}
EngReturn(c) ==
    /\ calls[c].pc = "return"
    /\ calls' = [calls EXCEPT ![c].pc = "done", ![c].trace = dagHeap[dag]]
    /\ ops' = ops + 1
    /\ ret' = [op |-> "reason", call |-> c, trace |-> dagHeap[dag]]
    /\ UNCHANGED <<memVars, traceVars, serverVars, nextId, dagHeap, dag, stepOwner>>

NextEngine ==
    \/ \E maxIterations \in IterationChoices : EngReason(maxIterations)
    \/ \E c \in 1..Len(calls) : EngIterate(c)
    \/ \E c \in 1..Len(calls) : EngSynthesize(c)
    \/ \E c \in 1..Len(calls) : EngReturn(c)

SpecEngine == Init /\ [][NextEngine]_vars

(***************************************************************************)
(* The MCP server's `remember` and `recall` tool handlers on its one        *)
(* MemoryManager.  A handler runs from one await on file I/O to the next as *)
(* one step; handlers in flight interleave at those awaits.  A handler is   *)
(* [tool, pc, content, importance, limit, doc, id]: pc "load" while the     *)
(* readFile of initialize() is pending, "write" while the writeFile of      *)
(* save() is pending, "done" once it returned; doc is the document save()   *)
(* built before its awaits.                                                *)
(***************************************************************************)
MaxToolCalls == 4       \* tool calls per behaviour
MaxInFlight == 2        \* tool calls in flight at once
DefaultImportance == 50 \* args.importance || 0.5
DefaultLimit == 10      \* args.limit || 10
ToolImportances == {0, 90}
ToolLimits == {0}
NoDoc == [kind |-> "missing"]

\* (args?.importance as number) || 0.5
toolImportance(importance) == IF importance = 0 THEN DefaultImportance ELSE importance

\* (args?.limit as number) || 10
toolLimit(limit) == IF limit = 0 THEN DefaultLimit ELSE limit

inFlight == {h \in 1..Len(handlers) : handlers[h].pc # "done"}

\* the server accepts a tool call: the handler runs up to the readFile of
\* memory.initialize()
ToolCall(tool, content, importance, limit) ==
    /\ Len(handlers) < MaxToolCalls
    /\ Cardinality(inFlight) < MaxInFlight
    /\ handlers' = Append(handlers, [tool |-> tool, pc |-> "load", content |-> content,
                                      importance |-> importance, limit |-> limit,
                                      doc |-> NoDoc, id |-> 0])
    /\ overlapped' = (overlapped \/ inFlight # {})
    /\ ops' = ops + 1
    /\ ret' = [op |-> "tool.call", tool |-> tool]
    /\ UNCHANGED <<memVars, nextId, traceVars, engineVars, recallLog>>

\* `remember`: readFile answered, so load() finishes, memory.remember() runs
\* and memory.save() builds its document and awaits mkdir/writeFile (or
\* returns at once when the store is not dirty)
RememberLoaded(h) ==
    /\ handlers[h].tool = "remember" /\ handlers[h].pc = "load"
    /\ \E loaded \in {load(ltEntries, associations, disk)} :
       LET importance == toolImportance(handlers[h].importance)
           entry == createMemoryEntry(nextId + 1, handlers[h].content, importance, <<>>,
                                      routeOf(importance))
           lt == IF routeOf(importance) = "long_term" THEN putEntry(loaded.entries, entry)
                 ELSE loaded.entries
           dirty == ltDirty \/ routeOf(importance) = "long_term"
           writes == saveWrites(lt, loaded.network, dirty)
       IN  /\ ltEntries' = lt
           /\ associations' = loaded.network
           /\ ltDirty' = dirty
           /\ stEntries' = IF routeOf(importance) = "short_term" THEN stAdd(stEntries, entry)
                            ELSE stEntries
           /\ flStore' = IF routeOf(importance) = "fleeting" THEN putEntry(flStore, entry)
                          ELSE flStore
           /\ handlers' = [handlers EXCEPT
                              ![h].pc = IF writes THEN "write" ELSE "done",
                              ![h].doc = IF writes THEN storedDocument(lt, loaded.network)
                                         ELSE NoDoc,
                              ![h].id = nextId + 1]
           /\ ret' = [op |-> IF writes THEN "tool.remember.saving" ELSE "tool.remember",
                      id |-> nextId + 1, tier |-> routeOf(importance)]
    /\ nextId' = nextId + 1
    /\ ops' = ops + 1
    /\ UNCHANGED <<now, disk, consolidating, coActivatedPairs, traceVars, engineVars,
                   recallLog, overlapped>>

\* `remember`: writeFile answered; save() clears dirty and the handler returns
RememberWritten(h) ==
    /\ handlers[h].tool = "remember" /\ handlers[h].pc = "write"
    /\ disk' = handlers[h].doc
    /\ ltDirty' = FALSE
    /\ handlers' = [handlers EXCEPT ![h].pc = "done"]
    /\ ret' = [op |-> "tool.remember", id |-> handlers[h].id, tier |-> "long_term"]
    /\ ops' = ops + 1
    /\ UNCHANGED <<now, nextId, associations, stEntries, flStore, ltEntries, consolidating,
                   coActivatedPairs, traceVars, engineVars, recallLog, overlapped>>

\* `recall`: readFile answered, so load() finishes, memory.recall() runs and
\* the handler returns (it does not save)
RecallLoaded(h) ==
    /\ handlers[h].tool = "recall" /\ handlers[h].pc = "load"
    /\ \E loaded \in {load(ltEntries, associations, disk)},
          limit \in {toolLimit(handlers[h].limit)}, query \in {handlers[h].content} :
       \E direct \in {ltSearchIds(loaded.entries, query, limit)},
          recalledIds \in {recall(loaded.entries, loaded.network, stEntries, flStore,
                                  query, limit)} :
           /\ ltEntries' = touchAll(loaded.entries, direct)
           /\ ltDirty' = (ltDirty \/ direct # <<>>)
           /\ associations' = coActivateRecalled(loaded.network, recalledIds)
           /\ coActivatedPairs' = coActivatedPairs \cup
                                     (IF Len(recalledIds) > 1 THEN pairsOf(recalledIds) ELSE {})
           /\ recallLog' = Append(recallLog, recalledIds)
           /\ ret' = [op |-> "tool.recall", ids |-> recalledIds]
    /\ handlers' = [handlers EXCEPT ![h].pc = "done"]
    /\ ops' = ops + 1
    /\ UNCHANGED <<now, nextId, stEntries, flStore, disk, consolidating, traceVars, engineVars,
                   overlapped>>

NextServer ==
    \/ \E content \in SessContents, importance \in ToolImportances :
           ToolCall("remember", content, importance, 0)
    \/ \E query \in SessContents, limit \in ToolLimits : ToolCall("recall", query, 0, limit)
    \/ \E h \in 1..Len(handlers) : RememberLoaded(h)
    \/ \E h \in 1..Len(handlers) : RememberWritten(h)
    \/ \E h \in 1..Len(handlers) : RecallLoaded(h)

SpecServer == Init /\ [][NextServer]_vars

\* entry `id` of the long-term store shares a token with the query
lexicallyMatches(id, query) ==
    jaccardSimilarity(query, ltEntries[IdxOf(ltEntries, id)].content)[1] > 0

(***************************************************************************)
(* Claims about the HebbianNetwork (under SpecHebbian)                     *)
(***************************************************************************)
\* C4: after any sequence of strengthen, coActivate, decay and removeNode from
\* the empty graph, getStrength(a, b) = getStrength(b, a) for all ids a, b.
C4_Symmetric ==
    \A a \in NodeIds, b \in NodeIds :
        getStrength(associations, a, b) = getStrength(associations, b, a)

\* an edge between two different nodes that survived a decay()
C4_Witness ==
    /\ ret.op = "decay"
    /\ \E a \in NodeIds, b \in NodeIds : a # b /\ getStrength(associations, a, b) > 0

\* C5: every stored edge weight w satisfies 0 <= w <= maxStrength, whatever
\* amount strengthen was given.
C5_WeightsInRange ==
    \A w \in UNION {{associations[i].v[j].v : j \in 1..Len(associations[i].v)} :
                    i \in 1..Len(associations)} :
        0 <= w /\ w <= MaxStrength

\* C6: strengthen(a, b, amount) sets weight(a,b) and weight(b,a) to
\* min(maxStrength, previous weight + amount), an absent edge counting as 0,
\* and changes no other edge.
C6_StrengthenAccumulatesAndClamps ==
    [][ret'.op = "strengthen" =>
        LET a == ret'.idA
            b == ret'.idB
        IN  /\ getStrength(associations', a, b)
                 = Min(MaxStrength, getStrength(associations, a, b) + ret'.amount)
            /\ getStrength(associations', b, a)
                 = Min(MaxStrength, getStrength(associations, b, a) + ret'.amount)
            /\ \A x \in NodeIds, y \in NodeIds :
                   {x, y} # {a, b} =>
                       getStrength(associations', x, y) = getStrength(associations, x, y)
      ]_vars

\* the second strengthen(a, b, 0.8) has run: the weight is exactly 1.0, and
\* another edge exists beside it
C6_Witness ==
    /\ ret.op = "strengthen" /\ ret.amount = 800 /\ ret.idA # ret.idB
    /\ getStrength(associations, ret.idA, ret.idB) = MaxStrength
    /\ getStrength(associations, ret.idB, ret.idA) = MaxStrength
    /\ \E x \in NodeIds, y \in NodeIds :
           {x, y} # {ret.idA, ret.idB} /\ getStrength(associations, x, y) # 0

\* C7: one decay() replaces every weight w by w * (1 - decayRate) in both
\* directions and removes every edge whose new weight is below 0.01: a removed
\* edge reads 0 in both directions, every remaining edge has weight >= 0.01.
C7_DecayScalesAndDrops ==
    [][ret'.op = "decay" =>
        /\ \A a \in NodeIds, b \in NodeIds :
             LET stored == MapHas(associations, a) /\ MapHas(MapGet(associations, a), b)
                 w == (getStrength(associations, a, b) * (Scale - DecayRate)) \div Scale
             IN  IF stored /\ w >= Epsilon
                 THEN /\ getStrength(associations', a, b) = w
                      /\ getStrength(associations', b, a) = w
                 ELSE /\ getStrength(associations', a, b) = 0
                      /\ getStrength(associations', b, a) = 0
                      /\ ~(MapHas(associations', a) /\ MapHas(MapGet(associations', a), b))
        /\ \A i \in 1..Len(associations') : \A j \in 1..Len(associations'[i].v) :
             associations'[i].v[j].v >= Epsilon
      ]_vars

\* a decay() that emptied one node's links (a 0.005 edge fell below 0.01) and
\* kept a 0.8 edge at 0.76
C7_Witness ==
    /\ ret.op = "decay"
    /\ \E i \in 1..Len(associations) : associations[i].v = <<>>
    /\ \E a \in NodeIds, b \in NodeIds :
           a # b /\ getStrength(associations, a, b) = (800 * (Scale - DecayRate)) \div Scale

\* C8: fromJSON(g.toJSON()) gives the same getStrength(a, b) as g for every
\* ordered pair (a, b), and building it leaves g unchanged.
C8_RoundTrip ==
    [][ret'.op = "roundTrip" =>
        /\ associations' = associations
        /\ \A a \in NodeIds, b \in NodeIds :
             getStrength(ret'.restored, a, b) = getStrength(associations, a, b)
      ]_vars

\* a round trip of a graph with an edge whose serialized form lists its nodes
\* in another order than the graph holds them
C8_Witness ==
    /\ ret.op = "roundTrip"
    /\ ret.restored # associations
    /\ \E a \in NodeIds, b \in NodeIds : a # b /\ getStrength(ret.restored, a, b) > 0

(***************************************************************************)
(* Claims about the ShortTermMemory (under SpecShortTerm)                  *)
(***************************************************************************)
\* C2: after every add, get, search, compress, remove and clear,
\* size() <= maxSize.
C2_SizeBounded == Len(stEntries) <= StMaxSize

\* an add that ran the eviction: the store is full and the entry that add
\* returned is not in it
C2_Witness ==
    /\ ret.op = "st.add"
    /\ Len(stEntries) = StMaxSize
    /\ ~HasId(stEntries, ret.entry.id)

\* C3: when add makes the size exceed maxSize, exactly one entry is dropped;
\* no retained entry has a strictly lower relevance(e, now) than the dropped
\* one, and a retained entry of equal relevance was inserted earlier (ids are
\* handed out in insertion order).
C3_EvictsLowestRelevance ==
    [][(ret'.op = "st.add" /\ Len(stEntries) + 1 > StMaxSize) =>
        LET pushed == Append(stEntries, ret'.entry)
            dropped == {i \in 1..Len(pushed) : ~HasId(stEntries', pushed[i].id)}
        IN  /\ Cardinality(dropped) = 1
            /\ Len(stEntries') = Len(pushed) - 1
            /\ \A i \in 1..Len(stEntries') : \E j \in 1..Len(pushed) : stEntries'[i] = pushed[j]
            /\ \A d \in dropped : \A r \in (1..Len(pushed)) \ dropped :
                 /\ ~KeyLess(relevanceSq(pushed[r], now), relevanceSq(pushed[d], now))
                 /\ ~KeyLess(relevanceSq(pushed[d], now), relevanceSq(pushed[r], now))
                        => pushed[r].id < pushed[d].id
      ]_vars

\* an eviction that kept an entry of positive relevance and an entry that ties
\* with the dropped one at relevance 0
C3_Witness ==
    /\ ret.op = "st.add"
    /\ ~HasId(stEntries, ret.entry.id)
    /\ \E i \in 1..Len(stEntries) : relevanceSq(stEntries[i], now)[1] > 0
    /\ \E i \in 1..Len(stEntries) : relevanceSq(stEntries[i], now)[1] = 0

\* C19: compress() returns nothing and changes nothing while
\* size()/maxSize is below compressionThreshold; otherwise it removes exactly
\* the entries with accessCount >= 3 or importance >= 0.7, returns exactly
\* those, ordered by relevance(e, now) descending, and leaves every other
\* entry in its previous relative order.
C19_CompressPromotesExactly ==
    [][ret'.op = "st.compress" =>
        LET worthy(e) == e.accessCount >= 3 \/ e.importance >= 70
            promoted == ret'.promoted
        IN  IF Len(stEntries) * 100 < 80 * StMaxSize
            THEN promoted = <<>> /\ stEntries' = stEntries
            ELSE /\ stEntries' = SelectSeq(stEntries, LAMBDA e : ~worthy(e))
                 /\ \A i \in 1..Len(promoted) :
                        \E j \in 1..Len(stEntries) : stEntries[j] = promoted[i] /\ worthy(promoted[i])
                 /\ \A j \in 1..Len(stEntries) : worthy(stEntries[j]) =>
                        Cardinality({i \in 1..Len(promoted) : promoted[i] = stEntries[j]}) = 1
                 /\ \A i \in 1..Len(promoted), j \in 1..Len(promoted) : i < j =>
                        ~KeyLess(relevanceSq(promoted[i], now), relevanceSq(promoted[j], now))
      ]_vars

\* a compress over a full store that returned two entries, the later-stored
\* one first because its relevance is strictly higher; that one qualified by
\* its accessCount alone, the other by its importance alone
C19_Witness ==
    /\ ret.op = "st.compress"
    /\ Len(ret.promoted) = 2
    /\ ret.promoted[1].importance < 70 /\ ret.promoted[2].accessCount < 3
    /\ ret.promoted[1].id > ret.promoted[2].id
    /\ KeyLess(relevanceSq(ret.promoted[2], now), relevanceSq(ret.promoted[1], now))

\* C16: every successful read increments the entry's accessCount by exactly
\* 1 and sets its lastAccessed to the time of the read: a get(id) that finds
\* the entry, and every entry a search returns as a match. Stated for the
\* short-term store.
C16_ReadsAreCounted ==
    [][LET read(id) == /\ HasId(stEntries', id)
                       /\ stEntries'[IdxOf(stEntries', id)].accessCount =
                              stEntries[IdxOf(stEntries, id)].accessCount + 1
                       /\ stEntries'[IdxOf(stEntries', id)].lastAccessed = now
       IN  /\ (ret'.op = "st.get" /\ ret'.found) => read(ret'.id)
           /\ ret'.op = "st.search" => \A i \in 1..Len(ret'.ids) : read(ret'.ids[i])
      ]_vars

\* C28: ShortTermMemory.add on a store that already holds maxSize entries
\* evicts the entry it has just created: the set of stored ids is unchanged
\* and the returned entry is found neither by get (by id) nor by any search.
C28_AddOnFullStoreDropsNewEntry ==
    [][(ret'.op = "st.add" /\ Len(stEntries) = StMaxSize) =>
        /\ IdsOf(stEntries') = IdsOf(stEntries)
        /\ ~HasId(stEntries', ret'.entry.id)
        /\ \A query \in Queries, limit \in Limits :
              \A i \in 1..Len(searchIndices(stEntries', query, limit)) :
                  stEntries'[searchIndices(stEntries', query, limit)[i]].id # ret'.entry.id
      ]_vars

\* an add of an important entry on a full store whose entries were never read
C28_Witness ==
    /\ ret.op = "st.add"
    /\ ret.entry.importance >= PromoteImportance
    /\ ret.entry.id > StMaxSize
    /\ Len(stEntries) = StMaxSize
    /\ \A i \in 1..Len(stEntries) : /\ stEntries[i].accessCount = 0
                                     /\ stEntries[i].importance < ret.entry.importance
    /\ ~HasId(stEntries, ret.entry.id)

(***************************************************************************)
(* Claims about the LongTermMemory (under SpecLongTerm)                    *)
(***************************************************************************)
\* C9: prune() never removes an entry whose accessCount is 0; it removes
\* every entry with accessCount > 0 whose relevance(e, now) is below
\* pruneThreshold; it returns the number of entries it removed.
C9_PruneRespectsAccessHistory ==
    [][ret'.op = "lt.prune" =>
        /\ \A i \in 1..Len(ltEntries) :
             LET e == ltEntries[i]
                 low == KeyLess(relevanceSq(e, now), <<PruneThreshold * PruneThreshold, 1>>)
             IN  /\ e.accessCount = 0 => \E j \in 1..Len(ltEntries') : ltEntries'[j] = e
                 /\ (e.accessCount > 0 /\ low) => ~HasId(ltEntries', e.id)
        /\ IdsOf(ltEntries') \subseteq IdsOf(ltEntries)
        /\ ret'.pruned = Len(ltEntries) - Len(ltEntries')
      ]_vars

\* a prune() that removed an entry and kept a never-read one (relevance 0)
C9_Witness ==
    /\ ret.op = "lt.prune"
    /\ ret.pruned > 0
    /\ \E i \in 1..Len(ltEntries) : ltEntries[i].accessCount = 0

\* C15 as stated: for long-term entries A and B where A lexically matches Q
\* and B does not, and coActivate([A, B]) was called earlier,
\* searchWithAssociations(Q, limit) includes B.
C15_AssociatedAlwaysIncluded ==
    [][ret'.op = "lt.searchWithAssociations" =>
        \A A \in IdsOf(ltEntries), B \in IdsOf(ltEntries) :
            (/\ lexicallyMatches(A, ret'.query)
             /\ ~lexicallyMatches(B, ret'.query)
             /\ {A, B} \in coActivatedPairs)
            => \E i \in 1..Len(ret'.ids) : ret'.ids[i] = B
      ]_vars

\* C15, amended: ... searchWithAssociations(Q, limit) includes B whenever B is
\* still one of the three strongest neighbours of A and limit is at least four
\* times the number of entries that match Q (every match and three neighbours
\* of each fit into the result).
C15_AssociatedIncludedWithinLimit ==
    [][ret'.op = "lt.searchWithAssociations" =>
        \A A \in IdsOf(ltEntries), B \in IdsOf(ltEntries) :
            (/\ lexicallyMatches(A, ret'.query)
             /\ ~lexicallyMatches(B, ret'.query)
             /\ {A, B} \in coActivatedPairs
             /\ \E i \in 1..3 : /\ i <= Len(getStrongestAssociations(associations, A, 3))
                                 /\ getStrongestAssociations(associations, A, 3)[i] = B
             /\ 4 * Cardinality({C \in IdsOf(ltEntries) : lexicallyMatches(C, ret'.query)})
                    <= ret'.limit)
            => \E i \in 1..Len(ret'.ids) : ret'.ids[i] = B
      ]_vars

\* a search that returned an entry sharing no token with the query, pulled in
\* through its co-activation with a direct hit
C15_Witness ==
    /\ ret.op = "lt.searchWithAssociations"
    /\ \E A \in IdsOf(ltEntries), B \in IdsOf(ltEntries) :
          /\ lexicallyMatches(A, ret.query)
          /\ ~lexicallyMatches(B, ret.query)
          /\ {A, B} \in coActivatedPairs
          /\ \E i \in 1..Len(ret.ids) : ret.ids[i] = B

\* C20 as stated: load() against a missing, unreadable or unparsable file
\* never throws, and after it returns the store is empty, whatever it held
\* before the call.
C20_FailedLoadEmptiesStore ==
    [][(ret'.op = "lt.load" /\ disk.kind \in {"missing", "garbage"}) =>
            ~ret'.threw /\ Len(ltEntries') = 0
      ]_vars

\* C20, amended: load() against a missing, unreadable or unparsable file never
\* throws and leaves the entries and the graph as they were before the call;
\* a store that was empty before the call is empty after it.
C20_FailedLoadKeepsStore ==
    [][(ret'.op = "lt.load" /\ disk.kind \in {"missing", "garbage"}) =>
            ~ret'.threw /\ ltEntries' = ltEntries /\ associations' = associations
      ]_vars

\* a load that met unparsable text while the store held an entry and its graph
\* an edge
C20_Witness ==
    /\ ret.op = "lt.load" /\ ret.file = "garbage"
    /\ ltEntries # <<>>
    /\ \E i \in 1..Len(associations) : associations[i].v # <<>>

\* C22: after any sequence of add, promote, get, search, remove and prune
\* followed by save(), a fresh LongTermMemory on the same path that calls
\* load() holds exactly the entries of the saved store and returns the same
\* getStrength for every pair of ids.
C22_SaveLoadRoundTrip ==
    [][(ret'.op = "lt.save" /\ ~ret'.threw) =>
        LET fresh == load(<<>>, <<>>, disk')
        IN  /\ Len(fresh.entries) = Len(ltEntries')
            /\ {fresh.entries[i] : i \in 1..Len(fresh.entries)} =
                  {ltEntries'[i] : i \in 1..Len(ltEntries')}
            /\ \A a \in 0..nextId, b \in 0..nextId :
                  getStrength(fresh.network, a, b) = getStrength(associations', a, b)
      ]_vars

\* a save wrote a store whose one entry had been read, after another entry
\* had been removed or pruned
C22_Witness ==
    /\ ret.op = "lt.save" /\ ~ret.threw
    /\ disk.kind = "doc" /\ ~ltDirty
    /\ Len(ltEntries) = 1 /\ nextId > 1
    /\ ltEntries[1].accessCount > 0

C10_RemovalStripsEdges ==
    [][LET removed == IF ret'.op = "lt.remove" /\ ret'.result THEN {ret'.id}
                      ELSE IF ret'.op = "lt.prune" THEN IdsOf(ltEntries) \ IdsOf(ltEntries')
                      ELSE {}
       IN  removed # {} =>
             /\ \A id \in removed : \A x \in LtNodeIds :
                  /\ getStrength(associations', id, x) = 0
                  /\ getStrength(associations', x, id) = 0
             /\ \A a \in LtNodeIds, b \in LtNodeIds :
                  getStrength(associations', a, b) = getStrength(associations', b, a)
      ]_vars

\* a remove(id) that returned true and stripped the only edge of another node
C10_Witness ==
    /\ ret.op = "lt.remove" /\ ret.result
    /\ \E i \in 1..Len(associations) : associations[i].v = <<>>

(***************************************************************************)
(* Claims about the MemoryManager (under SpecManager)                      *)
(***************************************************************************)
\* C1: remember(content, i, tags) writes to exactly one tier and returns an
\* entry whose tier is long_term if i >= 0.7, short_term if 0.4 <= i < 0.7,
\* fleeting otherwise, whatever the content, the tags and the tiers hold.
C1_TierRouting ==
    [][ret'.op = "remember" =>
        LET i == ret'.importance
            tier == ret'.entry.source
        IN  /\ i >= LongTermThreshold => tier = "long_term"
            /\ (ShortTermThreshold <= i /\ i < LongTermThreshold) => tier = "short_term"
            /\ i < ShortTermThreshold => tier = "fleeting"
            /\ tier = "long_term" =>
                 /\ ltEntries' = Append(ltEntries, ret'.entry)
                 /\ stEntries' = stEntries /\ flStore' = flStore
            /\ tier = "short_term" =>
                 /\ IdsOf(stEntries') \subseteq IdsOf(stEntries) \cup {ret'.entry.id}
                 /\ ltEntries' = ltEntries /\ flStore' = flStore
            /\ tier = "fleeting" =>
                 /\ flStore' = Append(flStore, ret'.entry)
                 /\ ltEntries' = ltEntries /\ stEntries' = stEntries
      ]_vars

\* remember at exactly 0.7 with all three tiers already holding an entry
C1_Witness ==
    /\ ret.op = "remember" /\ ret.importance = LongTermThreshold
    /\ ret.entry.source = "long_term"
    /\ stEntries # <<>> /\ flStore # <<>> /\ Len(ltEntries) = 1

(***************************************************************************)
(* Claims about a MemoryManager session (under SpecSession, SpecRecall)    *)
(***************************************************************************)
\* the tier whose store holds `id`
tierOf(id) ==
    IF HasId(ltEntries, id) THEN "long_term"
    ELSE IF HasId(stEntries, id) THEN "short_term" ELSE "fleeting"

\* C11: under remember, recall, consolidate and get on the tiers, every entry
\* id is held by at most one of the fleeting store, the working set and the
\* long-term store, and the tier field of every held entry names the store
\* that holds it; the promotion step of consolidate takes each promoted entry
\* out of the working set and puts it, same id, tier long_term, into the
\* long-term store.
C11_OneTierPerEntry ==
    [][/\ IdsOf(flStore') \cap IdsOf(stEntries') = {}
       /\ IdsOf(flStore') \cap IdsOf(ltEntries') = {}
       /\ IdsOf(stEntries') \cap IdsOf(ltEntries') = {}
       /\ Cardinality(IdsOf(flStore')) = Len(flStore')
       /\ Cardinality(IdsOf(stEntries')) = Len(stEntries')
       /\ Cardinality(IdsOf(ltEntries')) = Len(ltEntries')
       /\ \A i \in 1..Len(flStore') : flStore'[i].source = "fleeting"
       /\ \A i \in 1..Len(stEntries') : stEntries'[i].source = "short_term"
       /\ \A i \in 1..Len(ltEntries') : ltEntries'[i].source = "long_term"
       /\ (ret'.op = "consolidate.step" /\ ret'.step = "compress") =>
             \A id \in IdsOf(stEntries) \ IdsOf(stEntries') :
                 /\ HasId(ltEntries', id)
                 /\ ltEntries'[IdxOf(ltEntries', id)] =
                       [stEntries[IdxOf(stEntries, id)] EXCEPT !.source = "long_term"]
      ]_vars

\* the first step of a consolidate has promoted an entry: it is in the
\* long-term store with its three reads on it and an importance below 0.7
C11_Witness ==
    /\ ret.op = "consolidate.step" /\ ret.step = "compress"
    /\ consolidating[1].result > 0
    /\ \E i \in 1..Len(ltEntries) : ltEntries[i].accessCount >= 3 /\ ltEntries[i].importance < 70

\* C12: after consolidate() returns, the fleeting store is empty, and every
\* entry that was in the working set before the call with accessCount >= 3
\* or importance >= 0.7 is in the long-term store and not in the working set.
\* The promotion is the first step of the call; no later step touches the
\* working set.
C12_ConsolidatePromotesWorthy ==
    [][/\ (ret'.op = "consolidate.step" /\ ret'.step = "compress") =>
             \A i \in 1..Len(stEntries) :
                 (stEntries[i].accessCount >= 3 \/ stEntries[i].importance >= 70) =>
                     /\ HasId(ltEntries', stEntries[i].id)
                     /\ ~HasId(stEntries', stEntries[i].id)
       /\ (ret'.op = "consolidate" /\ ~ret'.threw) =>
             /\ flStore' = <<>>
             /\ \A i \in 1..Len(stEntries') :
                   ~(stEntries'[i].accessCount >= 3 \/ stEntries'[i].importance >= 70)
      ]_vars

\* C13: within one consolidate() the steps run in this order, each finished
\* before the next starts: working-set compress with promotion of what it
\* returned, graph decay, long-term prune, fleeting clear, long-term save;
\* the value returned is the number of entries compress returned.
C13_ConsolidateOrder ==
    [][(ret'.op \in {"consolidate", "consolidate.step"}) =>
        LET k == Len(consolidating) + 1
            c == compress(stEntries)
            p == prune(ltEntries, associations)
        IN  /\ ret'.step = <<"compress", "decay", "prune", "clear", "save">>[k]
            /\ \A i \in 1..(k - 1) :
                  consolidating[i].step = <<"compress", "decay", "prune", "clear", "save">>[i]
            /\ k = 1 => /\ stEntries' = c[1]
                        /\ IdsOf(ltEntries') = IdsOf(ltEntries) \cup IdsOf(c[2])
                        /\ consolidating'[1].result = Len(c[2])
                        /\ UNCHANGED <<associations, flStore, disk>>
            /\ k = 2 => /\ associations' = decay(associations)
                        /\ UNCHANGED <<stEntries, ltEntries, flStore, disk>>
            /\ k = 3 => /\ ltEntries' = p.entries /\ associations' = p.network
                        /\ UNCHANGED <<stEntries, flStore, disk>>
            /\ k = 4 => /\ flStore' = <<>>
                        /\ UNCHANGED <<stEntries, ltEntries, associations, disk>>
            /\ k = 5 => /\ UNCHANGED <<stEntries, ltEntries, associations, flStore>>
                        /\ (ltDirty /\ ~ret'.threw) =>
                              disk' = [kind |-> "doc", entries |-> ltEntries,
                                       associations |-> toJSON(associations)]
                        /\ ~ret'.threw => ret'.promoted = consolidating[1].result
      ]_vars

\* a consolidate went through its five steps, promoted an entry and wrote
\* the file
C13_Witness ==
    /\ ret.op = "consolidate" /\ ~ret.threw
    /\ ret.promoted > 0
    /\ disk.kind = "doc"

\* C14: after consolidate() completes successfully on a manager with a
\* storage path, the file holds the long-term store's current state: a fresh
\* LongTermMemory that loads it has the same entries and the same graph
\* weights as the in-memory store (post-decay, post-prune).
C14_ConsolidatePersistsCurrentState ==
    [][(ret'.op = "consolidate" /\ ~ret'.threw) =>
        LET fresh == load(<<>>, <<>>, disk')
        IN  /\ {fresh.entries[i] : i \in 1..Len(fresh.entries)} =
                  {ltEntries'[i] : i \in 1..Len(ltEntries')}
            /\ \A a \in 0..nextId, b \in 0..nextId :
                  getStrength(fresh.network, a, b) = getStrength(associations', a, b)
      ]_vars

\* C17: recall(query, limit) returns at most limit entries with pairwise
\* different ids, ordered by non-increasing score, score = lexical similarity
\* + 0.2 for an entry of the long-term store, + 0.1 for one of the working
\* set, + 0 for a fleeting one; of two entries with equal similarity the
\* long-term one comes before the working-set one, which comes before the
\* fleeting one.
C17_RecallRanking ==
    [][ret'.op = "recall" =>
        LET ids == ret'.ids
            entry(id) == IF HasId(ltEntries, id) THEN ltEntries[IdxOf(ltEntries, id)]
                         ELSE IF HasId(stEntries, id) THEN stEntries[IdxOf(stEntries, id)]
                         ELSE flStore[IdxOf(flStore, id)]
            sim(id) == jaccardSimilarity(ret'.query, entry(id).content)
            boost(id) == IF HasId(ltEntries, id) THEN 2 ELSE IF HasId(stEntries, id) THEN 1 ELSE 0
            score(id) == <<10 * sim(id)[1] + boost(id) * sim(id)[2], 10 * sim(id)[2]>>
        IN  /\ Len(ids) <= ret'.limit
            /\ \A i \in 1..Len(ids) :
                  HasId(ltEntries, ids[i]) \/ HasId(stEntries, ids[i]) \/ HasId(flStore, ids[i])
            /\ \A i \in 1..Len(ids), j \in 1..Len(ids) : i < j =>
                  /\ ids[i] # ids[j]
                  /\ ~KeyLess(score(ids[i]), score(ids[j]))
                  /\ sim(ids[i])[1] * sim(ids[j])[2] = sim(ids[j])[1] * sim(ids[i])[2]
                        => boost(ids[i]) >= boost(ids[j])
      ]_vars

\* a recall that ranked a working-set entry before a long-term one (its
\* similarity is higher by more than the boost) and returned a fleeting one
C17_Witness ==
    /\ ret.op = "recall"
    /\ \E i \in 1..Len(ret.ids), j \in 1..Len(ret.ids) :
          i < j /\ tierOf(ret.ids[i]) = "short_term" /\ tierOf(ret.ids[j]) = "long_term"
    /\ \E i \in 1..Len(ret.ids) : tierOf(ret.ids[i]) = "fleeting"

\* C18: if recall returns more than one entry, the weight of every unordered
\* pair of returned ids is raised by 0.1 (clamped to maxStrength) in the
\* long-term store's graph and no other pair changes; if it returns zero or
\* one entry the graph is left unchanged.
C18_RecallCoActivates ==
    [][ret'.op = "recall" =>
        LET returned == {ret'.ids[i] : i \in 1..Len(ret'.ids)}
        IN  IF Len(ret'.ids) > 1
            THEN \A a \in 0..nextId, b \in 0..nextId :
                    getStrength(associations', a, b) =
                        IF a # b /\ a \in returned /\ b \in returned
                        THEN Min(1000, getStrength(associations, a, b) + 100)
                        ELSE getStrength(associations, a, b)
            ELSE associations' = associations
      ]_vars

\* a recall returned two entries whose pair already had a weight, while a
\* third entry with an edge of its own was not returned
C18_Witness ==
    /\ ret.op = "recall"
    /\ Len(ret.ids) = 2
    /\ getStrength(associations, ret.ids[1], ret.ids[2]) = 200
    /\ \E a \in 1..nextId : /\ a \notin {ret.ids[1], ret.ids[2]}
                             /\ getStrength(associations, a, ret.ids[1]) = 100

\* C21: if the file write inside LongTermMemory.save() fails, the failure
\* reaches the caller of save(), of MemoryManager.save() and of consolidate(),
\* and the store stays marked dirty, so that a later save() attempts the
\* write again.
C21_WriteFailurePropagates ==
    [][(/\ \/ ret'.op \in {"lt.save", "mgr.save"}
           \/ ret'.op = "consolidate" /\ ret'.step = "save"
        /\ ltDirty
        /\ ret'.outcome # "written")
       => /\ ret'.threw
          /\ ltDirty'
          /\ save(ltEntries', associations', ltDirty', disk', "written").disk =
                [kind |-> "doc", entries |-> ltEntries', associations |-> toJSON(associations')]
      ]_vars

\* a consolidate whose write failed after truncating the file: it threw and
\* the store, which holds an entry, is still dirty
C21_Witness ==
    /\ ret.op = "consolidate" /\ ret.threw /\ ret.outcome = "torn"
    /\ ltDirty /\ ltEntries # <<>>
    /\ disk.kind = "garbage"

(***************************************************************************)
(* Claims about remember, recall and consolidate alone (under SpecCore)    *)
(***************************************************************************)
\* the ids of the entries held by any of the three tiers
heldIds == IdsOf(flStore) \cup IdsOf(stEntries) \cup IdsOf(ltEntries)

\* the edges of the graph with a non-zero weight, as <<from, to>>
liveEdges ==
    {e \in MapKeys(associations) \X EntryIds :
        /\ MapHas(MapGet(associations, e[1]), e[2])
        /\ MapGet(MapGet(associations, e[1]), e[2]) # 0}

\* C24: under remember, recall and consolidate the graph has no dangling
\* edge: both endpoints of every edge with a non-zero weight are ids of
\* entries held by one of the three tiers.
C24_NoDanglingEdge ==
    \A e \in liveEdges : e[1] \in heldIds /\ e[2] \in heldIds

\* C27: with only remember, recall and consolidate every working-set entry
\* has accessCount 0 in every reachable state, so compress finds no promotable
\* entry and every consolidate() returns 0.
C27_WorkingSetNeverPromoted ==
    [][/\ \A i \in 1..Len(stEntries') : stEntries'[i].accessCount = 0
       /\ \A i \in 1..Len(stEntries') : ~promotable(stEntries'[i])
       /\ (ret'.op = "consolidate" /\ ~ret'.threw) => ret'.promoted = 0
      ]_vars

\* a consolidate() returned with a working set full enough for compress to
\* look for promotable entries, after a recall that returned one of them
C27_Witness ==
    /\ ret.op = "consolidate" /\ ~ret.threw
    /\ Len(stEntries) * ImpScale >= CompressionThreshold * StMaxSize
    /\ \E p \in coActivatedPairs : p \cap IdsOf(stEntries) # {}

(***************************************************************************)
(* Claims about the ReasoningDAG (under SpecDag)                           *)
(***************************************************************************)
\* the parent of step `id` of `ss`, NullId for a root or an unknown id
parentOf(ss, id) == IF hasStep(ss, id) THEN ss[stepIdx(ss, id)].parentId ELSE NullId

\* following parent links from `id` for `n` links ends at a root
RECURSIVE reachesRoot(_, _, _)
reachesRoot(ss, id, n) ==
    IF id = NullId THEN TRUE
    ELSE IF n = 0 THEN FALSE
    ELSE reachesRoot(ss, parentOf(ss, id), n - 1)

\* C26: after any sequence of addStep and mergeFrom calls (merged traces with
\* ids of their own) totalSteps is the number of stored steps, every non-null
\* parentId names a stored step whose childrenIds holds the child, every id
\* in a step's childrenIds names a stored step whose parentId is that step,
\* and the parent links have no cycle; an addStep with an unknown parentId
\* throws and leaves the DAG unchanged.
C26_DagConsistent ==
    [][/\ totalSteps' = Len(steps')
       /\ \A i \in 1..Len(steps') :
             LET st == steps'[i]
             IN  /\ st.parentId # NullId =>
                       /\ hasStep(steps', st.parentId)
                       /\ \E k \in 1..Len(steps'[stepIdx(steps', st.parentId)].childrenIds) :
                              steps'[stepIdx(steps', st.parentId)].childrenIds[k] = st.id
                 /\ \A k \in 1..Len(st.childrenIds) :
                       /\ hasStep(steps', st.childrenIds[k])
                       /\ steps'[stepIdx(steps', st.childrenIds[k])].parentId = st.id
                 /\ reachesRoot(steps', st.id, Len(steps'))
       /\ (ret'.op = "dag.addStep" /\ ~hasStep(steps, ret'.parentId) /\ ret'.parentId # NullId)
             => (ret'.threw /\ UNCHANGED traceVars)
      ]_vars

(***************************************************************************)
(* Claims about overlapping reason() calls (under SpecEngine)              *)
(***************************************************************************)
\* the ids of the steps call `c` has added
ownSteps(c) == {id \in 1..Len(stepOwner) : stepOwner[id] = c}

\* C29: when reason() calls on one ReasoningEngine overlap, the trace each
\* call returns holds exactly the steps its own initialize, iterate and
\* synthesize added, and none added by another call.
C29_TraceHoldsOwnSteps ==
    \A c \in 1..Len(calls) :
        calls[c].pc = "done" =>
            {calls[c].trace[k].id : k \in 1..Len(calls[c].trace)} = ownSteps(c)

(***************************************************************************)
(* Claims about the MCP server's tool handlers (under SpecServer)          *)
(***************************************************************************)
\* the number of finished `recall` tool calls of `log` that returned both a and b
togetherCount(log, a, b) ==
    Cardinality({k \in 1..Len(log) :
                    /\ \E i \in 1..Len(log[k]) : log[k][i] = a
                    /\ \E i \in 1..Len(log[k]) : log[k][i] = b})

\* the pairs of long-term entries of `entries` some recall of `log` returned together
recalledPairs(log, entries) ==
    {p \in IdsOf(entries) \X IdsOf(entries) : p[1] # p[2] /\ togetherCount(log, p[1], p[2]) > 0}

\* C25: through the tool handlers, called one after the other, two long-term
\* entries returned together by n `recall` calls (with `remember` calls in
\* between) have association strength min(1.0, 0.1 * n) after the n-th
\* recall, and that strength is in the document on disk once a later
\* `remember` call has saved, so that a later session loads it.
C25_AssociationsAccumulate ==
    [][~overlapped' =>
        /\ ret'.op = "tool.recall" =>
              \A p \in recalledPairs(recallLog', ltEntries') :
                  togetherCount(<<ret'.ids>>, p[1], p[2]) > 0 =>
                      getStrength(associations', p[1], p[2]) =
                          Min(MaxStrength, DefaultAmount * togetherCount(recallLog', p[1], p[2]))
        /\ ret'.op = "tool.remember" =>
              \A p \in recalledPairs(recallLog', ltEntries') :
                  /\ disk'.kind = "doc"
                  /\ getStrength(fromJSON(disk'.associations), p[1], p[2]) =
                          Min(MaxStrength, DefaultAmount * togetherCount(recallLog', p[1], p[2]))
      ]_vars

\* the `remember` tool calls that put an entry into long-term storage
longTermWrites ==
    {h \in 1..Len(handlers) :
        handlers[h].tool = "remember" /\ routeOf(toolImportance(handlers[h].importance)) = "long_term"}

\* C30: when two `remember` tool calls with importance >= 0.7 are handled with
\* their asynchronous steps interleaved in any order, then after both have
\* completed both new entries are in the in-memory long-term store and in
\* the document on disk.
C30_ConcurrentRemembersKept ==
    (/\ Len(handlers) = 2
     /\ longTermWrites = {1, 2}
     /\ inFlight = {})
    => /\ \A h \in {1, 2} : HasId(ltEntries, handlers[h].id)
       /\ disk.kind = "doc"
       /\ \A h \in {1, 2} : HasId(disk.entries, handlers[h].id)

====
